---- MODULE Spec2Model ----
(***************************************************************************)
(* Model of Auth0Importer (src/src/importer.js): one importer instance,    *)
(* one call of import(), the token promise and its renewal timer, the      *)
(* promise chain built by import() and the remote service answering it.    *)
(* Every action is one callback of the event loop together with the        *)
(* microtasks (promise reactions) it triggers.                             *)
(***************************************************************************)
EXTENDS Integers, Sequences, FiniteSets, TLC

----------------------------------------------------------------------------
(* Program constants *)
MS_IN_SEC == 1000
RENEW_INTERVAL == 60
WAIT_INTERVAL == 5 * 1000
AUTH0_JOB_STATUS_PENDING == "pending"
MAX_FILE_SIZE == 500000
TIMEOUT_MAX == 2147483647
DATABASE_STRATEGY == "auth0"

(* Bounds of the model *)
MaxTokenRequests == 2
MaxPending == 2
MaxErrors == 2

----------------------------------------------------------------------------
(* The environment: file system, glob, the remote service's answers *)

ClientId == "client-1"

\* byte sizes fs.statSync reports
FileSize(f) ==
  CASE f = "a.json" -> MAX_FILE_SIZE
    [] f = "b.json" -> MAX_FILE_SIZE + 1
    [] f = "c.json" -> 1024
    [] OTHER -> 0

\* the matches glob() reports for a pattern, in glob's (sorted) order
Glob(p) ==
  CASE p = "[ab]*" -> <<"a.json", "b.json">>
    [] p = "a*" -> <<"a.json">>
    [] p = "b*" -> <<"b.json">>
    [] p = "c*" -> <<"c.json">>
    [] OTHER -> << >>

\* the second argument of import(): missing, or a list of patterns
FileArgs ==
  {[given |-> FALSE, list |-> << >>]} \cup
  {[given |-> TRUE, list |-> l] :
     l \in {<< >>, <<"[ab]*">>, <<"c*", "a*">>, <<"a*", "a*">>,
            <<"none*">>, <<"b*">>}}

\* options.connection: missing, empty or a name
ConnectionArgs ==
  {[given |-> FALSE, name |-> ""], [given |-> TRUE, name |-> ""],
   [given |-> TRUE, name |-> "Users"]}

Conn(strategy, clients) ==
  [id |-> "con_1", name |-> "Users", strategy |-> strategy, enabled_clients |-> clients]

\* bodies the connections listing endpoint may answer with
ConnectionListings ==
  {[isNull |-> TRUE, list |-> << >>],
   [isNull |-> FALSE, list |-> << >>],
   [isNull |-> FALSE, list |-> <<Conn(DATABASE_STRATEGY, {ClientId, "client-2"})>>],
   [isNull |-> FALSE, list |-> <<Conn("google-oauth2", {ClientId})>>],
   [isNull |-> FALSE, list |-> <<Conn(DATABASE_STRATEGY, {"client-2"})>>]}

JobStatuses == {AUTH0_JOB_STATUS_PENDING, "completed", "failed"}

\* bodies the job errors endpoint may answer with: no record, or MaxErrors records
ErrorListings == {[i \in 1..n |-> [user |-> i]] : n \in {0, MaxErrors}}

\* a token lifetime beyond the longest timer duration
LongExpiry == 3000000

\* token lifetimes of a run: below RENEW_INTERVAL, and above it
ExpiresIn == {30, 120}

\* lifetimes for the study of the renewal delay: every short one, the ones
\* around the cap of the timer, a long one
MaxShortExpiry == 130
ExpiresInWide == (1..MaxShortExpiry) \cup {2147542, 2147543, 2147544, LongExpiry}

----------------------------------------------------------------------------
VARIABLES
  pc,            \* the promise returned by import(): idle (not called),
                 \* globbing, running, resolved, rejected
  error,         \* the rejection reason
  connection,    \* options.connection as passed
  files,         \* the files argument as passed
  globs,         \* state of each readFiles promise: pending, ok, err
  admitted,      \* the list the submissions are folded over
  stats,         \* RunStats: made, connection, files
  waiting,       \* callApi calls awaiting a pending token promise
  inflight,      \* gateway requests sent and not answered
  pollTimers,    \* pending WAIT_INTERVAL timers of waitAndCheck
  tokState,      \* tokState[k]: state of the k-th token promise
  tokenPromise,  \* privateState.tokenPromise (0: undefined)
  tokenTimeout,  \* privateState.tokenTimeout (0: undefined)
  tokTimers,     \* pending renewal timers
  nextJob,       \* the remote service's job id counter
  log,           \* history: gateway requests, answers and appends, in order
  atSettle       \* history: token state when the promise of import() settled

vars == <<pc, error, connection, files, globs, admitted, stats, waiting,
          inflight, pollTimers, tokState, tokenPromise, tokenTimeout,
          tokTimers, nextJob, log, atSettle>>

NoStats == [made |-> FALSE, connection |-> [id |-> "", name |-> ""], files |-> << >>]
NotSettled == [settled |-> FALSE, tokReqs |-> 0, timers |-> {}, inflightToken |-> FALSE]

----------------------------------------------------------------------------
(* Pure helpers *)

Min(a, b) == IF a < b THEN a ELSE b

RECURSIVE Flatten(_)
\* allFiles.reduce((f, current) => f.concat(current), [])
Flatten(ss) == IF ss = << >> THEN << >> ELSE Head(ss) \o Flatten(Tail(ss))

\* a size check that lets every file pass
checkFileSizeNoLimit(fileName) == FileSize(fileName) >= 0

\* checkFileSize: TRUE when the file is kept
checkFileSize(fileName) == ~(FileSize(fileName) > MAX_FILE_SIZE)

RECURSIVE FilterBySize(_)
\* .filter(checkFileSize(this.logger))
FilterBySize(s) ==
  IF s = << >> THEN << >>
  ELSE (IF checkFileSize(Head(s)) THEN <<Head(s)>> ELSE << >>) \o FilterBySize(Tail(s))

\* a missing list of patterns read as "every JSON file"
FilesOrDefault(arg) == IF arg.given THEN arg.list ELSE <<"[ab]*">>

\* files || []
FilesOrEmpty(arg) == IF arg.given THEN arg.list ELSE << >>

\* a guard that tests only for a missing name, not for an empty one
MissingConnectionOnly(c) == ~c.given

\* the guard of import(): TRUE when the call is rejected at once
MissingConnection(c) == (~c.given) \/ Len(c.name) = 0

\* a resolver that keeps the first occurrence of every path only
AdmittedFilesDeduplicated(patterns) ==
  LET all    == Flatten([i \in DOMAIN patterns |-> Glob(patterns[i])])
      firsts == {i \in DOMAIN all : \A j \in 1..(i - 1) : all[j] # all[i]}
  IN FilterBySize([k \in 1..Cardinality(firsts) |->
                     all[CHOOSE i \in firsts : Cardinality({j \in firsts : j < i}) = k - 1]])

\* the list import() folds postUserImport over
AdmittedFiles(patterns) == FilterBySize(Flatten([i \in DOMAIN patterns |-> Glob(patterns[i])]))

\* a renewal scheduled for the moment the token expires
RenewAtExpiry(expires_in) ==
  IF expires_in > TIMEOUT_MAX \div MS_IN_SEC THEN TIMEOUT_MAX ELSE expires_in * MS_IN_SEC

\* the delay getManagementToken passes to setTimeout:
\* Math.min((expires_in - RENEW_INTERVAL) * MS_IN_SEC, 2147483647); the
\* product is not formed when it is beyond TIMEOUT_MAX anyway
RenewDelay(expires_in) ==
  IF expires_in - RENEW_INTERVAL > TIMEOUT_MAX \div MS_IN_SEC
  THEN TIMEOUT_MAX
  ELSE Min((expires_in - RENEW_INTERVAL) * MS_IN_SEC, TIMEOUT_MAX)

\* the delay the timer really gets: the runtime coerces a delay below 1 or above
\* TIMEOUT_MAX to 1
TimerDelay(ms) == IF ms < 1 \/ ms > TIMEOUT_MAX THEN 1 ELSE ms

\* a validation that forgets the enabled_clients check
ValidateConnectionNoClient(body, clientId) ==
  IF body.isNull \/ Len(body.list) = 0 THEN "not found"
  ELSE IF body.list[1].strategy # DATABASE_STRATEGY THEN "not a database connection"
  ELSE "ok"

\* the checks of getConnection on the listing: "ok" or the error thrown
ValidateConnection(body, clientId) ==
  IF body.isNull \/ Len(body.list) = 0 THEN "not found"
  ELSE IF body.list[1].strategy # DATABASE_STRATEGY THEN "not a database connection"
  ELSE IF clientId \notin body.list[1].enabled_clients THEN "not enabled for client"
  ELSE "ok"

\* a status test that takes every status for terminal: no job is polled again
PendingIsFinal(status) == FALSE

\* a status test that takes only "completed" as terminal
NotCompleted(status) == status # "completed"

\* waitAndCheck: whether the job is polled again
StillPending(status) == status = AUTH0_JOB_STATUS_PENDING

\* an entry that loses the error records
FileResultNoErrors(name, result, errors) == [name |-> name, result |-> result, errors |-> << >>]

\* the entry waitAndCheck pushes
FileResult(name, result, errors) == [name |-> name, result |-> result, errors |-> errors]

\* a fold that starts every submission as soon as the connection is validated
AllSubmissionsAtOnce(k, n) == IF k = 0 THEN [i \in 1..n |-> i] ELSE << >>

\* the fold: the submissions started when file k (0: the connection) is done
NextSubmissions(k, n) == IF k < n THEN <<k + 1>> ELSE << >>

\* getConnection(): the listing call
ListCall == <<[kind |-> "list", idx |-> 0, job |-> 0, st |-> "", arg |-> ""]>>

\* a submission that looks the connection up again for every file
SubmissionCallsWithLookup(idx, file) ==
  ListCall \o <<[kind |-> "submit", idx |-> idx, job |-> 0, st |-> "", arg |-> file]>>

\* the calls postUserImport makes for the idx-th file of the fold
SubmissionCalls(idx, file) == <<[kind |-> "submit", idx |-> idx, job |-> 0, st |-> "", arg |-> file]>>

\* a reset that clears nothing
resetNothing(timers, handle) == timers

\* resetTokenTimeout: the timers left after clearTimeout(tokenTimeout)
resetTokenTimeout(timers, handle) == {t \in timers : t.timer.id # handle}

Ev(ev, idx, job, tok, val) == [ev |-> ev, idx |-> idx, job |-> job, tok |-> tok, val |-> val]

\* setTimeout(callback, ms): the timer record, left counting down to 0
Timer(id, ms) == [id |-> id, ms |-> ms, delay |-> TimerDelay(ms), left |-> TimerDelay(ms)]

Count(s, P(_)) == Cardinality({i \in DOMAIN s : P(s[i])})

Range(s) == {s[i] : i \in DOMAIN s}

----------------------------------------------------------------------------
(* Shared steps of the promise chain *)

Unsettled == pc \in {"globbing", "running"}

TokenInFlight == \E k \in DOMAIN tokState : tokState[k] = "pending"

SettleRecord ==
  [settled |-> TRUE, tokReqs |-> Len(tokState), timers |-> tokTimers,
   inflightToken |-> TokenInFlight]

\* a callApi that asks for a new token for every request
TokenPerCall(states, cached) == [states |-> Append(states, "pending"), promise |-> Len(states) + 1]

\* callApi: the token promise a call awaits is the cached one, no token is requested
CachedToken(states, cached) == [states |-> states, promise |-> cached]

\* a gateway that sends its requests without a token
RequestWithoutToken(call, tok) ==
  [kind |-> call.kind, idx |-> call.idx, job |-> call.job, st |-> call.st,
   arg |-> call.arg, tok |-> 0]

\* callApi: the request a call becomes, bound to the token promise cached now
Request(call, tok) ==
  [kind |-> call.kind, idx |-> call.idx, job |-> call.job, st |-> call.st,
   arg |-> call.arg, tok |-> tok]

\* The rest of a callback of the chain: base is inflight without the request
\* answered, lg the log so far, newStats the stats, calls the callApi calls the
\* callback makes, outcome what it does to the chain: "continue", "resolve"
\* (the last promise of the fold resolved) or "reject" (it threw).
Chain(base, lg, newStats, calls, outcome, err) ==
  LET tk   == IF outcome = "continue" /\ calls # << >>
              THEN CachedToken(tokState, tokenPromise)
              ELSE [states |-> tokState, promise |-> tokenPromise]
      st   == tk.states[tk.promise]
      out  == IF outcome = "continue" /\ calls # << >> /\ st = "rejected"
              THEN "reject" ELSE outcome
      why  == IF outcome = "continue" THEN "token" ELSE err
      reqs == [i \in DOMAIN calls |-> Request(calls[i], tk.promise)]
      send == out = "continue" /\ st = "resolved"
  IN /\ stats' = newStats
     /\ tokState' = tk.states
     /\ tokenPromise' = tk.promise
     /\ inflight' = IF send THEN base \cup Range(reqs) ELSE base
     /\ waiting' = IF out = "continue" /\ st = "pending" THEN waiting \o reqs ELSE waiting
     /\ log' = IF send
               THEN lg \o [i \in DOMAIN reqs |-> Ev(reqs[i].kind, reqs[i].idx, reqs[i].job, reqs[i].tok, reqs[i].arg)]
               ELSE lg
     /\ pc' = IF ~Unsettled THEN pc
              ELSE IF out = "resolve" THEN "resolved"
              ELSE IF out = "reject" THEN "rejected"
              ELSE "running"
     /\ error' = IF Unsettled /\ out = "reject" THEN why ELSE error
     \* the final callback of import() clears the renewal timer
     /\ tokTimers' = IF Unsettled /\ out = "resolve"
                     THEN resetTokenTimeout(tokTimers, tokenTimeout) ELSE tokTimers
     /\ atSettle' = IF Unsettled /\ out # "continue" THEN SettleRecord ELSE atSettle

\* the submissions the fold starts once step k of n is done, or the end of the fold
AfterStep(base, lg, newStats, k, n) ==
  LET next  == NextSubmissions(k, n)
      calls == Flatten([i \in DOMAIN next |-> SubmissionCalls(next[i], admitted[next[i]])])
  IN Chain(base, lg, newStats, calls, IF k >= n THEN "resolve" ELSE "continue", "")

\* the status answers so far that made waitAndCheck poll the idx-th file's job again
Repolls(idx) == Count(log, LAMBDA e : e.ev = "status" /\ e.idx = idx /\ StillPending(e.val))

\* waitAndCheck(name, stats)(resultString) for the job of request r
waitAndCheck(r, job, status, base, lg) ==
  IF StillPending(status)
  THEN /\ pollTimers' = pollTimers \cup
            {[idx |-> r.idx, job |-> job, timer |-> Timer(r.idx, WAIT_INTERVAL)]}
       /\ Chain(base, lg, stats, << >>, "continue", "")
  ELSE /\ pollTimers' = pollTimers
       /\ Chain(base, lg, stats,
                <<[kind |-> "errors", idx |-> r.idx, job |-> job, st |-> status, arg |-> ""]>>,
                "continue", "")

----------------------------------------------------------------------------
(* Actions *)

Init ==
  /\ pc = "idle"
  /\ error = ""
  /\ connection \in ConnectionArgs
  /\ files \in FileArgs
  /\ globs = << >>
  /\ admitted = << >>
  /\ stats = NoStats
  /\ waiting = << >>
  /\ inflight = {}
  /\ pollTimers = {}
  /\ tokState = << >>
  /\ tokenPromise = 0
  /\ tokenTimeout = 0
  /\ tokTimers = {}
  /\ nextJob = 1
  /\ log = << >>
  /\ atSettle = NotSettled

\* import(options, files), to the point where it returns its promise, and the
\* reaction of Promise.all when there is no pattern
Import ==
  /\ pc = "idle"
  /\ UNCHANGED <<connection, files, nextJob, tokenTimeout, pollTimers>>
  /\ IF MissingConnection(connection)
     THEN /\ pc' = "rejected"
          /\ error' = "configuration"
          /\ atSettle' = SettleRecord
          /\ UNCHANGED <<globs, admitted, stats, waiting, inflight, tokState,
                         tokenPromise, tokTimers, log>>
     ELSE LET patterns == FilesOrEmpty(files) IN
          \* getManagementToken()
          /\ tokState' = Append(tokState, "pending")
          /\ tokenPromise' = Len(tokState) + 1
          /\ globs' = [i \in DOMAIN patterns |-> "pending"]
          /\ error' = error
          /\ atSettle' = atSettle
          /\ UNCHANGED <<stats, inflight, tokTimers, log>>
          /\ IF patterns = << >>
             THEN /\ admitted' = AdmittedFiles(patterns)
                  /\ pc' = "running"
                  /\ waiting' = waiting \o [i \in DOMAIN ListCall |-> Request(ListCall[i], Len(tokState) + 1)]
             ELSE /\ admitted' = admitted
                  /\ pc' = "globbing"
                  /\ waiting' = waiting

\* a chain that is built as soon as one expansion has completed
FirstExpanded(states, i) == TRUE

\* Promise.all: every other expansion has completed when expansion i completes
AllExpanded(states, i) == \A j \in DOMAIN states : j # i => states[j] = "ok"

\* glob calls back with the matches of pattern i; with the last one Promise.all
\* resolves and the chain is built
GlobDone(i) ==
  /\ globs[i] = "pending"
  /\ globs' = [globs EXCEPT ![i] = "ok"]
  /\ UNCHANGED <<connection, files, nextJob, tokenTimeout, pollTimers>>
  /\ IF pc = "globbing" /\ AllExpanded(globs, i)
     THEN /\ admitted' = AdmittedFiles(FilesOrEmpty(files))
          /\ Chain(inflight, log, stats, ListCall, "continue", "")
     ELSE UNCHANGED <<admitted, pc, error, stats, waiting, inflight, tokTimers, log,
                      atSettle, tokState, tokenPromise>>

\* glob calls back with an error for pattern i: Promise.all rejects
GlobFail(i) ==
  /\ globs[i] = "pending"
  /\ globs' = [globs EXCEPT ![i] = "err"]
  /\ UNCHANGED <<connection, files, nextJob, tokenTimeout, pollTimers, admitted>>
  /\ IF pc = "globbing"
     THEN Chain(inflight, log, stats, << >>, "reject", "glob")
     ELSE UNCHANGED <<pc, error, stats, waiting, inflight, tokTimers, log, atSettle,
                      tokState, tokenPromise>>

\* the authentication endpoint answers token request k: the renewal is scheduled
\* and the calls awaiting the promise send their requests
TokenResponse(k, expires_in) ==
  /\ tokState[k] = "pending"
  /\ tokState' = [tokState EXCEPT ![k] = "resolved"]
  /\ tokenTimeout' = k
  /\ tokTimers' = tokTimers \cup
       {[expires |-> expires_in, timer |-> Timer(k, RenewDelay(expires_in))]}
  /\ LET go == SelectSeq(waiting, LAMBDA w : w.tok = k) IN
       /\ inflight' = inflight \cup Range(go)
       /\ log' = log \o [i \in DOMAIN go |-> Ev(go[i].kind, go[i].idx, go[i].job, go[i].tok, go[i].arg)]
       /\ waiting' = SelectSeq(waiting, LAMBDA w : w.tok # k)
  /\ UNCHANGED <<pc, error, connection, files, globs, admitted, stats, pollTimers,
                 tokenPromise, nextJob, atSettle>>

\* token request k fails: every call awaiting the promise rejects
TokenFail(k) ==
  /\ tokState[k] = "pending"
  /\ tokState' = [tokState EXCEPT ![k] = "rejected"]
  /\ LET hit == \E i \in DOMAIN waiting : waiting[i].tok = k IN
       /\ waiting' = SelectSeq(waiting, LAMBDA w : w.tok # k)
       /\ pc' = IF hit /\ Unsettled THEN "rejected" ELSE pc
       /\ error' = IF hit /\ Unsettled THEN "token" ELSE error
       /\ atSettle' = IF hit /\ Unsettled
                      THEN [SettleRecord EXCEPT !.inflightToken = \E j \in DOMAIN tokState : j # k /\ tokState[j] = "pending"]
                      ELSE atSettle
  /\ UNCHANGED <<connection, files, globs, admitted, stats, inflight, pollTimers,
                 tokenPromise, tokenTimeout, tokTimers, nextJob, log>>

\* the renewal timer fires: getManagementToken()
TokenTimerFire(t) ==
  /\ t \in tokTimers
  /\ t.timer.left = 0
  /\ Len(tokState) < MaxTokenRequests
  /\ tokTimers' = tokTimers \ {t}
  /\ tokState' = Append(tokState, "pending")
  /\ tokenPromise' = Len(tokState) + 1
  /\ UNCHANGED <<pc, error, connection, files, globs, admitted, stats, waiting,
                 inflight, pollTimers, tokenTimeout, nextJob, log, atSettle>>

\* the connections listing answers: the callback of getConnection, then the fold
ListResponse(r, body) ==
  /\ r \in inflight /\ r.kind = "list"
  /\ LET v  == ValidateConnection(body, ClientId)
         lg == Append(log, Ev("r_list", 0, 0, r.tok, body))
     IN IF v = "ok"
        THEN AfterStep(inflight \ {r}, lg,
                       [made |-> TRUE,
                        connection |-> [id |-> body.list[1].id, name |-> body.list[1].name],
                        files |-> << >>],
                       0, Len(admitted))
        ELSE Chain(inflight \ {r}, lg, stats, << >>, "reject", v)
  /\ UNCHANGED <<connection, files, globs, admitted, pollTimers, tokenTimeout, nextJob>>

\* the submission endpoint accepts the file and answers the job descriptor
SubmitResponse(r, status) ==
  /\ r \in inflight /\ r.kind = "submit"
  /\ StillPending(status) => Repolls(r.idx) < MaxPending
  /\ nextJob' = nextJob + 1
  /\ waitAndCheck(r, nextJob, status, inflight \ {r},
                  Append(log, Ev("status", r.idx, nextJob, r.tok, status)))
  /\ UNCHANGED <<connection, files, globs, admitted, tokenTimeout>>

\* the job status endpoint answers a poll
PollResponse(r, status) ==
  /\ r \in inflight /\ r.kind = "poll"
  /\ StillPending(status) => Repolls(r.idx) < MaxPending
  /\ waitAndCheck(r, r.job, status, inflight \ {r},
                  Append(log, Ev("status", r.idx, r.job, r.tok, status)))
  /\ UNCHANGED <<connection, files, globs, admitted, tokenTimeout, nextJob>>

\* the WAIT_INTERVAL timer of waitAndCheck fires: the job status is fetched again
PollTimerFire(t) ==
  /\ t \in pollTimers
  /\ t.timer.left = 0
  /\ pollTimers' = pollTimers \ {t}
  /\ Chain(inflight, Append(log, Ev("wait", t.idx, t.job, 0, t.timer.delay - t.timer.left)), stats,
           <<[kind |-> "poll", idx |-> t.idx, job |-> t.job, st |-> "", arg |-> ""]>>, "continue", "")
  /\ UNCHANGED <<connection, files, globs, admitted, tokenTimeout, nextJob>>

\* the job errors endpoint answers: the FileResult is pushed, the fold goes on
ErrorsResponse(r, errors) ==
  /\ r \in inflight /\ r.kind = "errors"
  /\ AfterStep(inflight \ {r},
               log \o <<Ev("r_errors", r.idx, r.job, r.tok, errors), Ev("append", r.idx, r.job, 0, "")>>,
               [stats EXCEPT !.files = Append(@, FileResult(admitted[r.idx], [id |-> r.job, status |-> r.st], errors))],
               r.idx, Len(admitted))
  /\ UNCHANGED <<connection, files, globs, admitted, pollTimers, tokenTimeout, nextJob>>

\* a pipeline that catches a failed submission and goes on with the next file
SkipFailedSubmission(kind) == IF kind = "submit" THEN "skip" ELSE "reject"

\* what a rejected request does to the chain: no catch in callApi, getConnection,
\* postUserImport, waitAndCheck or import, so the chain rejects
OnRequestFailure(kind) == "reject"

\* a gateway request fails (network, 4xx, 5xx): rp rejects
GatewayFail(r) ==
  /\ r \in inflight
  /\ IF OnRequestFailure(r.kind) = "reject"
     THEN Chain(inflight \ {r}, Append(log, Ev("fail", r.idx, r.job, r.tok, r.kind)), stats,
                << >>, "reject", "gateway")
     ELSE AfterStep(inflight \ {r}, Append(log, Ev("fail", r.idx, r.job, r.tok, r.kind)),
                    stats, r.idx, Len(admitted))
  /\ UNCHANGED <<connection, files, globs, admitted, pollTimers, tokenTimeout, nextJob>>

\* the time left to each pending timer
Remainings == {t.timer.left : t \in tokTimers} \cup {t.timer.left : t \in pollTimers}

Elapse(t, d) == [t EXCEPT !.timer.left = @ - d]

\* time passes until the next pending timer is due
Advance(d) ==
  /\ d > 0
  /\ d \in Remainings
  /\ \A left \in Remainings : d <= left
  /\ tokTimers' = {Elapse(t, d) : t \in tokTimers}
  /\ pollTimers' = {Elapse(t, d) : t \in pollTimers}
  /\ UNCHANGED <<pc, error, connection, files, globs, admitted, stats, waiting,
                 inflight, tokState, tokenPromise, tokenTimeout, nextJob, log,
                 atSettle>>

Next ==
  \/ Import
  \/ \E i \in DOMAIN globs : GlobDone(i)
  \/ \E i \in DOMAIN globs : GlobFail(i)
  \/ \E k \in DOMAIN tokState, e \in ExpiresIn : TokenResponse(k, e)
  \/ \E k \in DOMAIN tokState : TokenFail(k)
  \/ \E t \in tokTimers : TokenTimerFire(t)
  \/ \E r \in inflight, body \in ConnectionListings : ListResponse(r, body)
  \/ \E r \in inflight, s \in JobStatuses : SubmitResponse(r, s)
  \/ \E r \in inflight, s \in JobStatuses : PollResponse(r, s)
  \/ \E t \in pollTimers : PollTimerFire(t)
  \/ \E r \in inflight, e \in ErrorListings : ErrorsResponse(r, e)
  \/ \E r \in inflight : GatewayFail(r)
  \/ \E d \in Remainings : Advance(d)

Spec == Init /\ [][Next]_vars

\* import() is called again on the same instance, with a connection name and
\* no pattern, while the first run is in progress: getManagementToken() (line
\* 204) requests a token and replaces the cached promise, leaving the timer
\* alone, and the listing call of the new run awaits the new promise
ImportAgain ==
  /\ Unsettled
  /\ Len(tokState) < MaxTokenRequests
  /\ tokState' = Append(tokState, "pending")
  /\ tokenPromise' = Len(tokState) + 1
  /\ waiting' = Append(waiting,
                       Request([kind |-> "list2", idx |-> 0, job |-> 0, st |-> "", arg |-> ""],
                               Len(tokState) + 1))
  /\ UNCHANGED <<pc, error, connection, files, globs, admitted, stats, inflight,
                 pollTimers, tokenTimeout, tokTimers, nextJob, log, atSettle>>

\* token request k fails while the listing call of the second run awaits it:
\* that call rejects the second run; the first run rejects when a call of
\* its own awaits the same promise
SecondTokenFail(k) ==
  /\ tokState[k] = "pending"
  /\ \E i \in DOMAIN waiting : waiting[i].tok = k /\ waiting[i].kind = "list2"
  /\ tokState' = [tokState EXCEPT ![k] = "rejected"]
  /\ LET hit == \E i \in DOMAIN waiting : waiting[i].tok = k /\ waiting[i].kind # "list2" IN
       /\ waiting' = SelectSeq(waiting, LAMBDA w : w.tok # k)
       /\ pc' = IF hit /\ Unsettled THEN "rejected" ELSE pc
       /\ error' = IF hit /\ Unsettled THEN "token" ELSE error
       /\ atSettle' = IF hit /\ Unsettled
                      THEN [SettleRecord EXCEPT !.inflightToken = \E j \in DOMAIN tokState : j # k /\ tokState[j] = "pending"]
                      ELSE atSettle
  /\ UNCHANGED <<connection, files, globs, admitted, stats, inflight, pollTimers,
                 tokenPromise, tokenTimeout, tokTimers, nextJob, log>>

\* the connections listing answers the second run: with a valid connection the
\* run, which has no file, resolves and calls resetTokenTimeout(); otherwise
\* it rejects
SecondListResponse(r, body) ==
  /\ r \in inflight /\ r.kind = "list2"
  /\ inflight' = inflight \ {r}
  /\ log' = Append(log, Ev("r_list2", 0, 0, r.tok, body))
  /\ tokTimers' = IF ValidateConnection(body, ClientId) = "ok"
                  THEN resetTokenTimeout(tokTimers, tokenTimeout) ELSE tokTimers
  /\ UNCHANGED <<pc, error, connection, files, globs, admitted, stats, waiting,
                 pollTimers, tokState, tokenPromise, tokenTimeout, nextJob, atSettle>>

\* the listing request of the second run fails: the second run rejects
SecondListFail(r) ==
  /\ r \in inflight /\ r.kind = "list2"
  /\ inflight' = inflight \ {r}
  /\ log' = Append(log, Ev("fail2", 0, 0, r.tok, r.kind))
  /\ UNCHANGED <<pc, error, connection, files, globs, admitted, stats, waiting,
                 pollTimers, tokState, tokenPromise, tokenTimeout, tokTimers, nextJob,
                 atSettle>>

\* A first run whose patterns admit no file
ReentrantInit ==
  /\ Init
  /\ AdmittedFiles(FilesOrEmpty(files)) = << >>

\* The first run, and import() called again on the same instance while it is
\* in progress; neither run has a file to submit.
ReentrantNext ==
  \/ Import
  \/ ImportAgain
  \/ \E i \in DOMAIN globs : GlobDone(i)
  \/ \E i \in DOMAIN globs : GlobFail(i)
  \/ \E k \in DOMAIN tokState, e \in ExpiresIn : TokenResponse(k, e)
  \/ \E k \in DOMAIN tokState :
       /\ \A i \in DOMAIN waiting : waiting[i].tok = k => waiting[i].kind # "list2"
       /\ TokenFail(k)
  \/ \E k \in DOMAIN tokState : SecondTokenFail(k)
  \/ \E t \in tokTimers : TokenTimerFire(t)
  \/ \E r \in inflight, body \in ConnectionListings : ListResponse(r, body)
  \/ \E r \in inflight, body \in ConnectionListings : SecondListResponse(r, body)
  \/ \E r \in inflight : r.kind # "list2" /\ GatewayFail(r)
  \/ \E r \in inflight : SecondListFail(r)
  \/ \E d \in Remainings : Advance(d)

SpecReentrant == ReentrantInit /\ [][ReentrantNext]_vars

\* The credential manager alone: import() starts, the token endpoint answers
\* with any lifetime, time passes, the renewal timer fires.
RenewalNext ==
  \/ Import
  \/ \E k \in DOMAIN tokState, e \in ExpiresInWide : TokenResponse(k, e)
  \/ \E t \in tokTimers : TokenTimerFire(t)
  \/ \E d \in Remainings : Advance(d)

SpecRenewal == Init /\ [][RenewalNext]_vars

\* A run in which nothing fails: every pattern expands, every token request
\* and every gateway request is answered, the connection is valid, and every
\* job leaves "pending" after MaxPending polls at most. The last token request
\* the bound allows gets a long-lived token, and time is not advanced to a
\* renewal the bound does not allow.
LiveNext ==
  \/ Import
  \/ \E i \in DOMAIN globs : GlobDone(i)
  \/ \E k \in DOMAIN tokState, e \in ExpiresIn \cup {LongExpiry} :
       /\ Len(tokState) = MaxTokenRequests => e = LongExpiry
       /\ TokenResponse(k, e)
  \/ \E t \in tokTimers : TokenTimerFire(t)
  \/ \E r \in inflight, body \in ConnectionListings :
       /\ ~body.isNull
       /\ body.list # << >>
       /\ body.list[1].strategy = DATABASE_STRATEGY
       /\ ClientId \in body.list[1].enabled_clients
       /\ ListResponse(r, body)
  \/ \E r \in inflight, s \in JobStatuses : SubmitResponse(r, s)
  \/ \E r \in inflight, s \in JobStatuses : PollResponse(r, s)
  \/ \E t \in pollTimers : PollTimerFire(t)
  \/ \E r \in inflight, e \in ErrorListings : ErrorsResponse(r, e)
  \/ \E d \in Remainings :
       /\ Len(tokState) = MaxTokenRequests => d \in {t.timer.left : t \in pollTimers}
       /\ Advance(d)

\* the event loop runs a callback that is ready, a request is answered, and
\* time passes: some step is taken as long as one is possible
SpecLive == Init /\ [][LiveNext]_vars /\ WF_vars(LiveNext)

----------------------------------------------------------------------------
(* Vocabulary of the properties, read from the history and the environment *)

Events(P(_)) == {i \in DOMAIN log : P(log[i])}
NumEvents(P(_)) == Cardinality(Events(P))

IsFor(e, ev, idx) == e.ev = ev /\ e.idx = idx

\* every file the patterns match, in the order the patterns were passed
Matched ==
  LET patterns == IF files.given THEN files.list ELSE << >>
  IN Flatten([i \in DOMAIN patterns |-> Glob(patterns[i])])

WithinLimit(f) == FileSize(f) <= 500000

\* the matched files that pass the admission filter
Admissible == SelectSeq(Matched, WithinLimit)

ValidConnectionName == connection.given /\ connection.name # ""

EmptyPatterns == (~files.given) \/ files.list = << >>

ValidListing(body) ==
  /\ ~body.isNull
  /\ body.list # << >>
  /\ body.list[1].strategy = "auth0"
  /\ ClientId \in body.list[1].enabled_clients

\* "pending" answers received for the idx-th file's job
PendingSeen(idx) == NumEvents(LAMBDA e : IsFor(e, "status", idx) /\ e.val = "pending")

\* a failure of the environment that the run may be rejected for
FatalCause ==
  \/ \E i \in DOMAIN log : log[i].ev = "fail"
  \/ \E i \in DOMAIN log : log[i].ev = "r_list" /\ ~ValidListing(log[i].val)
  \/ \E k \in DOMAIN tokState : tokState[k] = "rejected"
  \/ \E i \in DOMAIN globs : globs[i] = "err"

----------------------------------------------------------------------------
(* C1: when import() resolves, RunStats.files has one entry per admitted file
   (matched and within the size limit), the i-th entry naming the i-th admitted
   file, whatever number of pending answers each job gave. *)
C1_FilesFollowAdmission ==
  pc = "resolved" =>
    /\ Len(stats.files) = Len(Admissible)
    /\ \A i \in DOMAIN stats.files : stats.files[i].name = Admissible[i]

C1_Witness ==
  /\ pc = "resolved"
  /\ Len(stats.files) = 2
  /\ stats.files[1].name # stats.files[2].name
  /\ PendingSeen(1) = 0
  /\ PendingSeen(2) = 2

(* C2: a matched file larger than 500,000 bytes is never submitted: no gateway
   request is made for it and it never enters RunStats.files; a matched file of
   at most 500,000 bytes is in the list the fold runs over and in the files of
   a resolved run. *)
C2_OversizedNeverSubmitted ==
  LET submitted == {log[j].idx : j \in {j \in DOMAIN log : log[j].ev = "submit"}}
      matched   == Matched
  IN
  /\ \A i \in DOMAIN log :
       /\ log[i].ev = "submit" => WithinLimit(log[i].val)
       /\ log[i].ev \in {"poll", "errors"} => log[i].idx \in submitted
  /\ \A r \in inflight : r.kind = "submit" => WithinLimit(r.arg)
  /\ \A i \in DOMAIN waiting : waiting[i].kind = "submit" => WithinLimit(waiting[i].arg)
  /\ \A i \in DOMAIN stats.files : WithinLimit(stats.files[i].name)
  /\ pc \in {"running", "resolved"} =>
       \A i \in DOMAIN matched :
         WithinLimit(matched[i]) => \E j \in DOMAIN admitted : admitted[j] = matched[i]
  /\ pc = "resolved" =>
       \A i \in DOMAIN matched :
         WithinLimit(matched[i]) => \E j \in DOMAIN stats.files : stats.files[j].name = matched[i]

C2_Witness ==
  /\ pc = "resolved"
  /\ \E i \in DOMAIN Matched : FileSize(Matched[i]) = 500001
  /\ \E j \in DOMAIN stats.files : FileSize(stats.files[j].name) = 500000

(* C3: a run with a non-empty connection name never issues more than one
   request to the connections listing endpoint, and has issued exactly one as
   soon as the connection was validated, a job request was made or the run
   resolved, whatever the number of admitted files and of polls. *)
C3_OneListingCall ==
  LET listings == NumEvents(LAMBDA e : e.ev = "list") IN
  /\ listings <= 1
  /\ (pc = "resolved" \/ stats.made
      \/ \E i \in DOMAIN log : log[i].ev \in {"submit", "poll", "errors"}) => listings = 1

C3_Witness ==
  /\ pc = "resolved"
  /\ ValidConnectionName
  /\ Len(stats.files) = 2
  /\ PendingSeen(1) = 1
  /\ PendingSeen(2) = 2

(* C4: for a submitted file whose job answered n times "pending" and then a
   status other than "pending", there are exactly n status re-fetches, each
   after one wait of 5 seconds that follows a "pending" answer, then exactly
   one fetch of the error listing, then exactly one FileResult; any status
   other than "pending" ends the polling. *)

\* what the pipeline may do for a file right after event a: b
C4_Follows(a, b) ==
  CASE a.ev = "submit"   -> b.ev \in {"status", "fail"}
    [] a.ev = "status"   -> IF a.val = "pending"
                            THEN b.ev = "wait" /\ b.val = 5000 /\ b.job = a.job
                            ELSE b.ev = "errors" /\ b.job = a.job
    [] a.ev = "wait"     -> b.ev = "poll" /\ b.job = a.job
    [] a.ev = "poll"     -> b.ev \in {"status", "fail"} /\ b.job = a.job
    [] a.ev = "errors"   -> b.ev \in {"r_errors", "fail"} /\ b.job = a.job
    [] a.ev = "r_errors" -> b.ev = "append" /\ b.job = a.job
    [] OTHER             -> FALSE

C4_PollingProtocol ==
  \A idx \in DOMAIN admitted :
    LET trace == SelectSeq(log, LAMBDA e : e.idx = idx)
        n(ev) == Cardinality({i \in DOMAIN trace : trace[i].ev = ev})
        pendings == Cardinality({i \in DOMAIN trace :
                                   trace[i].ev = "status" /\ trace[i].val = "pending"})
    IN /\ trace # << >> => trace[1].ev = "submit"
       /\ \A i \in 1..(Len(trace) - 1) : C4_Follows(trace[i], trace[i + 1])
       /\ n("append") = 1 =>
            /\ n("poll") = pendings
            /\ n("wait") = pendings
            /\ n("status") = pendings + 1
            /\ n("errors") = 1

C4_Witness ==
  /\ Len(stats.files) >= 1
  /\ stats.files[1].result.status = "failed"
  /\ PendingSeen(1) = 2
  /\ NumEvents(LAMBDA e : IsFor(e, "poll", 1)) = 2

(* C5: error records never reject the run: a run is rejected only after a
   failed gateway request, a failed token request, a failed pattern expansion
   or an invalid connection listing, and in a resolved run every
   FileResult.errors is the listing the errors endpoint answered for that
   file's job. *)
C5_ErrorsAreData ==
  /\ (pc = "rejected" /\ ValidConnectionName) => FatalCause
  /\ \A i \in DOMAIN stats.files :
       \E j \in DOMAIN log : /\ log[j].ev = "r_errors"
                             /\ log[j].job = stats.files[i].result.id
                             /\ log[j].val = stats.files[i].errors

C5_Witness ==
  /\ pc = "resolved"
  /\ Len(stats.files) = 2
  /\ Len(stats.files[1].errors) = 0
  /\ Len(stats.files[2].errors) = 2

(* C6: when the listing holds no connection, or its first connection has not
   the database strategy or has not the caller's client enabled, import()
   rejects and no request to the submission endpoint is made, whatever the
   number of admitted files. *)
C6_NoSubmissionAfterInvalidConnection ==
  (\E i \in DOMAIN log : log[i].ev = "r_list" /\ ~ValidListing(log[i].val)) =>
    /\ pc = "rejected"
    /\ ~stats.made
    /\ \A i \in DOMAIN log : log[i].ev # "submit"
    /\ inflight = {}
    /\ waiting = << >>

C6_Witness ==
  /\ pc = "rejected"
  /\ Len(admitted) = 2
  /\ \E i \in DOMAIN log :
       /\ log[i].ev = "r_list"
       /\ ~log[i].val.isNull
       /\ log[i].val.list # << >>
       /\ log[i].val.list[1].strategy = "auth0"
       /\ ClientId \notin log[i].val.list[1].enabled_clients

(* C7: a token answer with expires_in = 120 schedules the renewal with a delay
   of 60 seconds, and when the run resolves while a renewal timer is pending,
   no timer is left and no token request is made from then on. *)
C7_RenewalCancelledOnCompletion ==
  /\ \A t \in tokTimers : t.expires = 120 => t.timer.delay = 60000
  /\ (pc = "resolved" /\ atSettle.timers # {}) =>
       /\ tokTimers = {}
       /\ Len(tokState) = atSettle.tokReqs

C7_Witness ==
  /\ pc = "resolved"
  /\ \E t \in atSettle.timers : t.expires = 120 /\ t.timer.delay = 60000 /\ t.timer.left > 0

(* C8 as stated: with a valid connection name and no pattern, no token request
   and no listing request is ever made. *)
C8_NoNetworkForEmptyPatterns ==
  (ValidConnectionName /\ EmptyPatterns) =>
    /\ tokState = << >>
    /\ \A i \in DOMAIN log : log[i].ev # "list"

(* C8 amended: with a valid connection name and an empty or missing list of
   patterns, import() requests a token and, with the token, the connections
   listing once; it submits no job, and it resolves with an empty files
   sequence unless the token request, the listing request or the validation
   fails. *)
C8_EmptyPatternsStillValidate ==
  (ValidConnectionName /\ EmptyPatterns /\ pc # "idle") =>
    /\ Len(tokState) >= 1
    /\ admitted = << >>
    /\ stats.files = << >>
    /\ \A i \in DOMAIN log : log[i].ev \in {"list", "r_list", "fail"}
    /\ pc \in {"running", "resolved", "rejected"}
    /\ pc = "resolved" =>
         /\ NumEvents(LAMBDA e : e.ev = "list") = 1
         /\ \E i \in DOMAIN log : log[i].ev = "r_list" /\ ValidListing(log[i].val)
    /\ pc = "rejected" => FatalCause
    /\ (\E i \in DOMAIN log : log[i].ev = "r_list" /\ ValidListing(log[i].val)) => pc = "resolved"

C8_Witness ==
  /\ pc = "resolved"
  /\ ValidConnectionName
  /\ ~files.given
  /\ stats.made
  /\ stats.files = << >>

(* C9: with a missing or empty connection name import() rejects with the
   configuration error and nothing else happens: no token request, no gateway
   call, no pattern expansion, no timer. *)
C9_MissingConnectionRejectsAtOnce ==
  (~ValidConnectionName /\ pc # "idle") =>
    /\ pc = "rejected"
    /\ error = "configuration"
    /\ tokState = << >>
    /\ tokenPromise = 0
    /\ log = << >>
    /\ inflight = {}
    /\ waiting = << >>
    /\ tokTimers = {}
    /\ pollTimers = {}
    /\ globs = << >>

C9_Witness ==
  /\ pc = "rejected"
  /\ connection.given
  /\ connection.name = ""
  /\ files.given
  /\ Len(files.list) = 2

(* C10: the files are processed one after the other: at most one job is
   submitted and not finalized, the submission of file k+1 comes after the
   FileResult of file k, and at most one request or wait of the pipeline is
   outstanding at any time. *)
C10_OneJobAtATime ==
  LET steps == SelectSeq(log, LAMBDA e : e.ev \in {"submit", "append"}) IN
  /\ Cardinality(inflight) + Len(waiting) + Cardinality(pollTimers) <= 1
  \* submit 1, append 1, submit 2, append 2, ...
  /\ \A i \in DOMAIN steps :
       /\ steps[i].ev = (IF i % 2 = 1 THEN "submit" ELSE "append")
       /\ steps[i].idx = (i + 1) \div 2
  /\ Len(stats.files) = Cardinality({i \in DOMAIN steps : steps[i].ev = "append"})

C10_Witness ==
  /\ \E r \in inflight : r.kind = "submit" /\ r.idx = 2
  /\ Len(stats.files) = 1
  /\ PendingSeen(1) = 2

\* the events of the log that are gateway requests
IsRequest(e) == e.ev \in {"list", "submit", "poll", "errors"}

(* C11: when the submission request of the k-th admitted file is rejected, it
   is not sent again, import() rejects, and no submission request is issued
   for any admitted file after k: the failure is the last thing the pipeline
   does. *)
C11_SubmissionFailureAborts ==
  \A i \in DOMAIN log :
    (log[i].ev = "fail" /\ log[i].val = "submit") =>
      /\ pc = "rejected"
      /\ error = "gateway"
      /\ i = Len(log)
      /\ Cardinality({j \in DOMAIN log : IsFor(log[j], "submit", log[i].idx)}) = 1
      /\ \A j \in DOMAIN log : log[j].ev = "submit" => log[j].idx <= log[i].idx
      /\ inflight = {}
      /\ waiting = << >>
      /\ pollTimers = {}

C11_Witness ==
  /\ pc = "rejected"
  /\ Len(admitted) = 2
  /\ log # << >>
  /\ log[Len(log)].ev = "fail"
  /\ log[Len(log)].val = "submit"
  /\ log[Len(log)].idx = 1

(* C12: import() never resolves with a partial RunStats. It resolves only when
   every admitted file was finalized and nothing failed on the way; a failed
   pattern expansion, a failed initial token request, an invalid connection
   or a failed gateway request (listing, submission, poll, error listing)
   rejects it, also when earlier files were finalized already, and a failed
   request is not issued again. *)
C12_NoPartialRunStats ==
  LET failed  == \E i \in DOMAIN log : log[i].ev = "fail"
      invalid == \E i \in DOMAIN log : log[i].ev = "r_list" /\ ~ValidListing(log[i].val)
      globErr == \E i \in DOMAIN globs : globs[i] = "err"
      adm     == Admissible
  IN /\ (failed \/ invalid \/ globErr \/ error # "") => pc = "rejected"
     /\ (Len(tokState) >= 1 /\ tokState[1] = "rejected") => pc # "resolved"
     /\ pc = "resolved" =>
          /\ Len(stats.files) = Len(adm)
          /\ \A k \in DOMAIN adm :
               \E i \in DOMAIN log : IsFor(log[i], "append", k)
     /\ pc = "rejected" =>
          /\ inflight = {}
          /\ waiting = << >>
          /\ pollTimers = {}
     /\ \A i \in DOMAIN log : log[i].ev = "fail" => i = Len(log)

C12_Witness ==
  /\ pc = "rejected"
  /\ Len(admitted) = 2
  /\ Len(stats.files) = 1
  /\ log[Len(log)].ev = "fail"
  /\ log[Len(log)].val \in {"poll", "errors"}

(* C13: a token request is issued only when import() starts and when a renewal
   timer fires, one request each, so that the requests issued number one plus
   the renewal timers fired; a step of the gateway (a request sent, answered
   or failed, a poll wait elapsed) never issues one. *)
C13_TokenRequestsFromStartOrTimer ==
  [][ /\ Len(tokState') # Len(tokState) =>
           /\ Len(tokState') = Len(tokState) + 1
           /\ \/ pc = "idle" /\ tokState = << >>
              \/ /\ \E t \in tokTimers : t.timer.left = 0 /\ tokTimers' = tokTimers \ {t}
                 /\ log' = log
                 /\ inflight' = inflight
                 /\ waiting' = waiting
                 /\ pollTimers' = pollTimers
      /\ (pc' = pc /\ \E t \in tokTimers : t.timer.left = 0 /\ t \notin tokTimers') =>
           Len(tokState') = Len(tokState) + 1
      /\ Cardinality({i \in DOMAIN log' : IsRequest(log'[i])}) >
           Cardinality({i \in DOMAIN log : IsRequest(log[i])}) =>
           Len(tokState') = Len(tokState)
    ]_vars

C13_Witness ==
  /\ pc = "resolved"
  /\ Len(tokState) = 2
  /\ Cardinality({i \in DOMAIN log : IsRequest(log[i])}) >= 6

\* the k-th token request failed while import() was not settled yet
FailedDuringRun(k) ==
  /\ k \in DOMAIN tokState
  /\ tokState[k] = "rejected"
  /\ atSettle.settled => /\ k <= atSettle.tokReqs
                         /\ ~(atSettle.inflightToken /\ k = atSettle.tokReqs)

\* no request is sent with a failed token, and a failed token request is the
\* last one: no retry, no renewal timer
TokenFailureEffects ==
  /\ \A i \in DOMAIN log :
       IsRequest(log[i]) => log[i].tok \in DOMAIN tokState /\ tokState[log[i].tok] = "resolved"
  /\ \A r \in inflight : tokState[r.tok] = "resolved"
  /\ \A i \in DOMAIN waiting : tokState[waiting[i].tok] = "pending"
  /\ \A k \in DOMAIN tokState :
       tokState[k] = "rejected" =>
         /\ k = Len(tokState)
         /\ tokenPromise = k
         /\ tokTimers = {}

(* C14 as stated: when a token request fails, the initial one or a renewal,
   the calls awaiting it reject without a request, no further token request
   is issued, and the run rejects. *)
C14_TokenFailureRejectsRun ==
  /\ TokenFailureEffects
  /\ \A k \in DOMAIN tokState :
       (FailedDuringRun(k) /\ atSettle.settled) => pc = "rejected"

(* C14 amended: when a token request fails, the initial one or a renewal,
   every gateway call that awaits that token promise, pending or made later,
   rejects without issuing its request and rejects the run, and no further
   token request is issued (no retry, no renewal timer). The run rejects
   always for the initial request; after a failed renewal it rejects at its
   next gateway call, and still resolves, with every admitted file finalized,
   when the only step left was the answer to a request sent before with the
   previous token. *)
C14_TokenFailureRejectsCalls ==
  /\ []TokenFailureEffects
  /\ [](\A k \in DOMAIN tokState :
          tokState[k] = "rejected" =>
            /\ k = 1 => (pc \in {"globbing", "rejected"} /\ log = << >>)
            /\ pc = "running" =>
                 (waiting = << >> /\ Cardinality(inflight) + Cardinality(pollTimers) = 1)
            /\ (pc = "resolved" /\ FailedDuringRun(k)) =>
                 /\ Len(stats.files) = Len(Admissible)
                 /\ \A i \in DOMAIN log : IsRequest(log[i]) => log[i].tok < k)
  /\ [][ (tokenPromise \in DOMAIN tokState /\ tokState[tokenPromise] = "rejected"
           /\ Unsettled) =>
            /\ tokState' = tokState
            /\ waiting' = << >>
            /\ inflight' \subseteq inflight
            /\ \A i \in DOMAIN log' : IsRequest(log'[i]) => i \in DOMAIN log
            \* an answer either ends the run or starts a poll wait
            /\ inflight' # inflight =>
                 (pc' \in {"rejected", "resolved"} \/ Cardinality(pollTimers') = 1)
            \* the poll after the wait is a call: it rejects
            /\ Cardinality(pollTimers') < Cardinality(pollTimers) =>
                 (pc' = "rejected" /\ error' = "token")
            /\ (pc = "globbing" /\ pc' # "globbing") => pc' = "rejected"
      ]_vars

C14_Witness ==
  /\ pc = "rejected"
  /\ error = "token"
  /\ Len(tokState) = 2
  /\ tokState[2] = "rejected"
  /\ \E i \in DOMAIN log : log[i].ev = "append"

(* C15: when import() settles, resolved or rejected (validation failure,
   submission or polling failure, pattern expansion failure), no renewal timer
   remains pending and no token request is issued afterwards. *)
C15_TimerClearedOnEveryExit ==
  atSettle.settled =>
    /\ tokTimers = {}
    /\ Len(tokState) = atSettle.tokReqs

\* the answers to submission requests: the jobs accepted so far
AcceptedSubmissions == {i \in DOMAIN log : log[i].ev = "status" /\ i > 1 /\ log[i - 1].ev = "submit"}

(* C16: in every reachable state the entries of RunStats.files are at most as
   many as the submission requests accepted so far, which are at most as many
   as the admitted files; every entry names a file whose submission was issued
   and accepted, and no two entries belong to the same submission. *)
C16_FilesWithinSubmissions ==
  LET accepted == AcceptedSubmissions
      issued   == {i \in DOMAIN log : log[i].ev = "submit"}
      adm      == Admissible
  IN /\ Len(stats.files) <= Cardinality(accepted)
     /\ Cardinality(accepted) <= Cardinality(issued)
     /\ Cardinality(issued) <= Len(adm)
     /\ \A k \in DOMAIN stats.files :
          \E i \in accepted :
            /\ log[i - 1].val = stats.files[k].name
            /\ log[i - 1].idx = k
            /\ log[i].job = stats.files[k].result.id
            /\ adm[k] = stats.files[k].name
     /\ \A k1, k2 \in DOMAIN stats.files :
          k1 # k2 => stats.files[k1].result.id # stats.files[k2].result.id

C16_Witness ==
  /\ Len(stats.files) = 1
  /\ Cardinality(AcceptedSubmissions) = 2
  /\ \E t \in pollTimers : t.idx = 2

\* the submission requests issued for file f
SubmissionsOf(f) == {i \in DOMAIN log : log[i].ev = "submit" /\ log[i].val = f}

(* C17 as stated: the list of files is flat and deduplicated: a path matched
   by two patterns, or by the same pattern passed twice, occurs once in it and
   exactly one import job is submitted for it. *)
C17_PathsDeduplicated ==
  LET adm == Admissible IN
  /\ \A i, j \in DOMAIN admitted : i # j => admitted[i] # admitted[j]
  /\ \A f \in Range(adm) : Cardinality(SubmissionsOf(f)) <= 1
  /\ pc = "resolved" => \A f \in Range(adm) : Cardinality(SubmissionsOf(f)) = 1

(* C17 amended: the list of files is flat and is the concatenation of the
   patterns' matches in the order of the patterns, filtered by size, with no
   deduplication: a path matched by two patterns, or by the same pattern
   passed twice, occurs once per match, and one import job is submitted for
   each occurrence. *)
C17_PathsConcatenated ==
  LET adm == Admissible IN
  /\ pc \in {"running", "resolved"} => admitted = adm
  /\ \A i \in DOMAIN log : log[i].ev = "submit" => log[i].val = adm[log[i].idx]
  /\ \A f \in Range(adm) :
       Cardinality(SubmissionsOf(f)) <= Cardinality({k \in DOMAIN adm : adm[k] = f})
  /\ pc = "resolved" =>
       \A f \in Range(adm) :
         Cardinality(SubmissionsOf(f)) = Cardinality({k \in DOMAIN adm : adm[k] = f})

C17_Witness ==
  /\ pc = "resolved"
  /\ files.given
  /\ files.list = <<"a*", "a*">>
  /\ Cardinality(SubmissionsOf("a.json")) = 2
  /\ Len(stats.files) = 2
  /\ stats.files[1].name = stats.files[2].name

(* C18: after each successful token response the renewal is scheduled with the
   delay min((expires_in - 60) * 1000, 2147483647) ms, so that for every
   expires_in the delay does not exceed the longest timer duration and the
   renewal fires before the token expires. *)
C18_RenewalDelay ==
  \A t \in tokTimers :
    LET e == t.expires
        m == t.timer.ms
    IN /\ e - 60 <= 2147483 => m = (e - 60) * 1000
       /\ e - 60 > 2147483 => m = 2147483647
       /\ m <= 2147483647
       \* the timer runs for the delay passed, or for 1 ms when that is below 1
       /\ t.timer.delay = (IF m < 1 THEN 1 ELSE m)
       /\ t.timer.delay <= 2147483647
       /\ t.timer.left <= t.timer.delay
       \* delay < expires_in * 1000
       /\ t.timer.delay \div 1000 < e

C18_Witness ==
  /\ Len(tokState) = 2
  /\ tokState[2] = "resolved"
  /\ \E t \in tokTimers :
       /\ t.expires = 2147544
       /\ t.timer.ms = 2147483647
       /\ t.timer.left = 0

\* the gateway requests sent so far, in the order they were sent
RequestsSent == SelectSeq(log, IsRequest)

\* every request sent carries the token of a resolved promise, every call not
\* sent yet awaits the cached promise, which is pending, and the tokens of the
\* requests follow the renewals
TokenBinding ==
  /\ \A i \in DOMAIN RequestsSent :
       /\ RequestsSent[i].tok \in DOMAIN tokState
       /\ tokState[RequestsSent[i].tok] = "resolved"
       /\ i > 1 => RequestsSent[i - 1].tok <= RequestsSent[i].tok
  /\ \A r \in inflight :
       /\ r.tok \in DOMAIN tokState
       /\ tokState[r.tok] = "resolved"
       /\ \E i \in DOMAIN RequestsSent : RequestsSent[i].tok = r.tok
  /\ \A i \in DOMAIN waiting :
       /\ waiting[i].tok = tokenPromise
       /\ tokState[tokenPromise] = "pending"

(* C19: every gateway request is sent only after the token promise that was
   cached when the call was made has resolved, and carries that token: a
   request sent before a renewal started keeps the old token, a call made
   after the renewal replaced the promise waits for the renewal and carries
   the new token; no request is sent without a token. *)
C19_RequestsCarryCachedToken ==
  /\ []TokenBinding
  /\ [][ /\ \A i \in DOMAIN log' :
             (i \notin DOMAIN log /\ IsRequest(log'[i])) =>
               /\ log'[i].tok = tokenPromise'
               /\ tokState'[tokenPromise'] = "resolved"
               \* sent at once, or released by the answer to the token request
               /\ \/ tokState[log'[i].tok] = "resolved" /\ waiting = << >>
                  \/ /\ tokState[log'[i].tok] = "pending"
                     /\ \E j \in DOMAIN waiting :
                          waiting[j].kind = log'[i].ev /\ waiting[j].tok = log'[i].tok
         \* a call made while the cached promise is pending is not sent
         /\ Len(waiting') > Len(waiting) =>
               /\ \A i \in DOMAIN log' : IsRequest(log'[i]) => i \in DOMAIN log
               /\ inflight' \subseteq inflight
               /\ tokState'[tokenPromise'] = "pending"
         \* a request in flight keeps its token when the promise is replaced
         /\ tokenPromise' # tokenPromise => inflight' = inflight
      ]_vars

C19_Witness ==
  /\ tokenPromise = 2
  /\ \E r \in inflight : r.tok = 2
  /\ \E i \in DOMAIN log : log[i].ev = "submit" /\ log[i].tok = 1
  /\ \E i \in DOMAIN log : log[i].ev = "errors" /\ log[i].tok = 2

\* the job status answers received so far
StatusAnswers == SelectSeq(log, LAMBDA e : e.ev = "status")

\* the job whose last answer was "pending" is waited for or polled again
Repolling ==
  LET last == StatusAnswers[Len(StatusAnswers)] IN
  (StatusAnswers # << >> /\ last.val = "pending") =>
    /\ pc = "running"
    /\ Len(stats.files) = last.idx - 1
    /\ \/ \E t \in pollTimers : t.job = last.job /\ t.idx = last.idx
       \/ \E r \in inflight : r.kind = "poll" /\ r.job = last.job /\ r.idx = last.idx
       \/ \E i \in DOMAIN waiting :
            waiting[i].kind = "poll" /\ waiting[i].job = last.job /\ waiting[i].idx = last.idx

(* C20: the polling loop ends only when the job leaves "pending". When every
   job eventually reports a status other than "pending" and no token or
   gateway request fails, import() eventually resolves; as long as the last
   answer of a job is "pending" the run is not settled and the job is waited
   for or polled again. *)
C20_PollingEndsWithTheJob ==
  /\ Unsettled ~> (pc = "resolved")
  /\ []Repolling
  /\ [](pc = "resolved" =>
          \A k \in DOMAIN stats.files : stats.files[k].result.status # "pending")

C20_Witness ==
  /\ pc = "resolved"
  /\ Len(stats.files) = 2
  /\ PendingSeen(1) = MaxPending
  /\ PendingSeen(2) = MaxPending
  /\ Len(tokState) = 2

(* C21: the submissions and the entries of RunStats.files follow the
   concatenation of the patterns' matches in the order the patterns were
   passed, whatever the order in which the pattern expansions complete; no
   listing or submission request is made, sent or waiting for a token, before
   every pattern expansion has completed. *)
C21_OrderIsPatternOrder ==
  LET adm == Admissible IN
  /\ \A i \in DOMAIN log :
       log[i].ev = "submit" =>
         /\ log[i].idx \in DOMAIN adm
         /\ log[i].val = adm[log[i].idx]
         /\ \A j \in 1..(i - 1) : log[j].ev = "submit" => log[j].idx < log[i].idx
  /\ \A k \in DOMAIN stats.files :
       /\ k \in DOMAIN adm
       /\ stats.files[k].name = adm[k]
  /\ (log # << >> \/ inflight # {} \/ waiting # << >>) =>
       \A i \in DOMAIN globs : globs[i] = "ok"
  /\ (\E i \in DOMAIN globs : globs[i] # "ok") =>
       /\ pc \in {"globbing", "rejected"}
       /\ admitted = << >>
       /\ stats.files = << >>

C21_Witness ==
  /\ pc = "globbing"
  /\ files.given
  /\ files.list = <<"c*", "a*">>
  /\ globs = <<"pending", "ok">>
  /\ log = << >>

\* the token requests that are not answered yet
TokenRequestsInFlight == {k \in DOMAIN tokState : tokState[k] = "pending"}

(* C22: the cached token promise has a single writer: at most one renewal
   timer is pending and at most one token request is in flight at any time,
   also when import() is called again on the same instance while an earlier
   run is in progress. *)
C22_SingleWriter ==
  /\ Cardinality(tokTimers) <= 1
  /\ Cardinality(TokenRequestsInFlight) <= 1

(* C23: the cancellation at the end of a run covers a renewal in flight: when
   the renewal timer has fired and its token request is unanswered at the
   moment the run resolves, the answer schedules no renewal timer, and no
   token request is issued after the one in flight. *)
C23_InFlightRenewalCancelled ==
  (pc = "resolved" /\ atSettle.inflightToken) =>
    /\ tokTimers = {}
    /\ Len(tokState) = atSettle.tokReqs

(* C24: the delay passed to the renewal timer is strictly positive for every
   positive expires_in, expires_in <= 60 included, so that a short-lived token
   does not make the credential manager renew at once, again and again. *)
C24_RenewalDelayPositive ==
  \A t \in tokTimers : t.expires > 0 => t.timer.ms > 0

(* C25: in every reachable state every entry of RunStats.files has a result
   whose status is not "pending", and errors that are the answer to the error
   listing requested for the same job after that status was received; every
   earlier status of the job was "pending", and no entry is appended for a
   job whose last status is "pending". *)
C25_EntriesAreFinal ==
  /\ \A k \in DOMAIN stats.files :
       /\ stats.files[k].result.status # "pending"
       /\ \E i \in DOMAIN log : log[i].ev = "append" /\ log[i].idx = k
  /\ \A i \in DOMAIN log :
       log[i].ev = "append" =>
         LET f == stats.files[log[i].idx] IN
         /\ log[i].idx \in DOMAIN stats.files
         /\ log[i].job = f.result.id
         /\ i >= 5
         /\ log[i - 1].ev = "r_errors"
         /\ log[i - 1].job = f.result.id
         /\ log[i - 1].val = f.errors
         /\ log[i - 2].ev = "errors"
         /\ log[i - 2].job = f.result.id
         /\ log[i - 3].ev = "status"
         /\ log[i - 3].job = f.result.id
         /\ log[i - 3].val = f.result.status
         /\ \A j \in 1..(i - 4) :
              (log[j].ev = "status" /\ log[j].job = f.result.id) => log[j].val = "pending"

C25_Witness ==
  /\ pc = "resolved"
  /\ Len(stats.files) = 2
  /\ PendingSeen(1) = MaxPending
  /\ stats.files[1].result.status = "failed"
  /\ Len(stats.files[1].errors) = MaxErrors
  /\ stats.files[2].result.status = "completed"

====
